---- MODULE Spec2Model ----
(***************************************************************************)
(* Model of mlagents/trainers/torch/layers.py: the layer factory           *)
(* (linear_layer, lstm_layer) and the two memory modules (LSTM, AMRLMax).  *)
(*                                                                         *)
(* Tensors are nested sequences (1-based); a 3-D tensor t has shape        *)
(* <<Len(t), Len(t[1]), Len(t[1][1])>>.  Floating point values are         *)
(* modelled by integers.  torch.nn.LSTM is a library: its cell is modelled *)
(* by a fixed deterministic function of (input, hidden, cell, parameters)  *)
(* over the residues 0..NumVals-1, wired exactly as the library wires it   *)
(* (per batch element, layer by layer, step by step).                      *)
(***************************************************************************)
EXTENDS Integers, Sequences, FiniteSets, TLC

VARIABLES
    margs,          \* arguments of the constructor call (SpecCtor), or NoArgs
    largs,          \* arguments of the lstm_layer call (SpecLayer), or NoArgs
    lstm,           \* self.lstm: the recurrent layer's named parameters
    variant,        \* "none" | "LSTM" | "AMRLMax": class of the module
    hidden_size,    \* self.hidden_size
    num_layers,     \* num_layers handed to torch.nn.LSTM
    seq_layers,     \* self.seq_layers: the post-processing linear layers
    memories,       \* the memory tensor the caller carries between calls
    input_tensor,   \* argument of the last forward call
    in_memories,    \* memories argument of the last forward call
    ret,            \* locals and return value of the last forward call
    calls,          \* number of forward calls since the memory was provided
    steps           \* number of time steps these calls have processed

vars == <<margs, largs, lstm, variant, hidden_size, num_layers, seq_layers,
          memories, input_tensor, in_memories, ret, calls, steps>>

-----------------------------------------------------------------------------
(* Bounds of the model *)

NumVals == 3          \* tensor values are the residues 0..NumVals-1
MaxMemArg == 8        \* constructor memory_size ranges over 2..MaxMemArg
MaxLayers == 2        \* num_layers ranges over 1..MaxLayers
MaxBatch == 2         \* batch size ranges over 1..MaxBatch
MaxSteps == 3         \* time steps of one episode, over all its forward calls
MaxPostLayers == 1    \* num_post_layers ranges over 1..MaxPostLayers
MaxForgetBias == 2    \* forget_bias ranges over 0..MaxForgetBias
MaxSeed == 1          \* state of the random generator at construction
MaxLayerHidden == 3   \* hidden_size of a bare lstm_layer call (SpecLayer)
MaxLayerInput == 2    \* input_size of a bare lstm_layer call (SpecLayer)

-----------------------------------------------------------------------------
(* Arithmetic and tensor helpers *)

Min(a, b) == IF a < b THEN a ELSE b
Max(a, b) == IF a > b THEN a ELSE b

RECURSIVE SumSeq(_)
SumSeq(s) == IF Len(s) = 0 THEN 0 ELSE s[1] + SumSeq(Tail(s))

RECURSIVE SumMat(_)
SumMat(m) == IF Len(m) = 0 THEN 0 ELSE SumSeq(m[1]) + SumMat(Tail(m))

\* python slice s[lo:hi] of a sequence (0-based, clamped)
PySlice(s, lo, hi) ==
    LET a == Min(lo, Len(s))
        b == Min(hi, Len(s))
    IN  IF a >= b THEN << >> ELSE SubSeq(s, a + 1, b)

Shape(t) == <<Len(t), Len(t[1]), Len(t[1][1])>>

\* t[:, :, lo:hi]
SliceLast(t, lo, hi) ==
    [i \in 1..Len(t) |-> [j \in 1..Len(t[i]) |-> PySlice(t[i][j], lo, hi)]]

\* t.permute([1, 0, 2])
Permute102(t) ==
    [j \in 1..Len(t[1]) |-> [i \in 1..Len(t) |-> t[i][j]]]

\* torch.cat([a, b], dim=-1) of two 3-D tensors; CatLastOk is its shape check
CatLastOk(a, b) == Len(a) = Len(b) /\ Len(a[1]) = Len(b[1])
CatLast(a, b) ==
    [i \in 1..Len(a) |-> [j \in 1..Len(a[i]) |-> a[i][j] \o b[i][j]]]

\* torch.cat([a, b], dim=1) of two 3-D tensors; CatDim1Ok is its shape check
CatDim1Ok(a, b) == Len(a) = Len(b) /\ Len(a[1][1]) = Len(b[1][1])
CatDim1(a, b) == [i \in 1..Len(a) |-> a[i] \o b[i]]

\* torch.cummax(t, dim=1).values
CumMax(t) ==
    [i \in 1..Len(t) |-> [j \in 1..Len(t[i]) |->
        [k \in 1..Len(t[i][j]) |->
            CHOOSE v \in {t[i][s][k] : s \in 1..j} :
                \A s \in 1..j : t[i][s][k] <= v]]]

\* t[:, 1:, :]
DropFirstStep(t) == [i \in 1..Len(t) |-> Tail(t[i])]

\* torch.split(t, split_size, dim=-1) with an int split_size: chunks of
\* split_size channels, the last one smaller; one chunk when split_size is 0
NumChunks(dim, split_size) ==
    IF split_size = 0 THEN 1
    ELSE Max((dim + split_size - 1) \div split_size, 1)
TorchSplitInt(t, split_size) ==
    LET dim == Len(t[1][1])
        n == NumChunks(dim, split_size)
    IN  [c \in 1..n |->
            IF split_size = 0 THEN t
            ELSE SliceLast(t, (c - 1) * split_size, c * split_size)]

\* torch.split(t, sizes, dim=-1) with a list of sizes; raises unless the
\* sizes sum to the dimension
RECURSIVE Offset(_, _)
Offset(sizes, k) == IF k = 0 THEN 0 ELSE sizes[k] + Offset(sizes, k - 1)
TorchSplitListOk(t, sizes) == Offset(sizes, Len(sizes)) = Len(t[1][1])
TorchSplitList(t, sizes) ==
    [c \in 1..Len(sizes) |->
        SliceLast(t, Offset(sizes, c - 1), Offset(sizes, c))]

-----------------------------------------------------------------------------
(* Initialization schemes and the layer factory *)

Initialization ==
    {"Zero", "XavierGlorotNormal", "XavierGlorotUniform",
     "KaimingHeNormal", "KaimingHeUniform"}

SchemeIndex(scheme) ==
    CASE scheme = "Zero" -> 0
      [] scheme = "XavierGlorotNormal" -> 1
      [] scheme = "XavierGlorotUniform" -> 2
      [] scheme = "KaimingHeNormal" -> 3
      [] scheme = "KaimingHeUniform" -> 4

\* one value written by _init_methods[scheme]: zero for Zero, else a draw of
\* the random generator, whose state is rng at the start of the call
InitValue(scheme, rng, r, c) ==
    IF scheme = "Zero" THEN 0
    ELSE 1 + ((rng + SchemeIndex(scheme) + 2 * r + c) % NumVals)

\* _init_methods[scheme](block): fills a block in place.  A block is a
\* sequence of rows; a row is a number (1-D tensor) or a sequence (2-D).
InitMethod(scheme, block, cols, rng) ==
    [r \in 1..Len(block) |->
        IF cols = 0 THEN InitValue(scheme, rng, r, 0)
        ELSE [c \in 1..cols |-> InitValue(scheme, rng, r, c)]]

\* value of a parameter as torch.nn.LSTM / torch.nn.Linear allocate it
DefaultValue == 0 - 1
NewTensor(rows, cols) ==
    [r \in 1..rows |->
        IF cols = 0 THEN DefaultValue ELSE [c \in 1..cols |-> DefaultValue]]

\* row.add_(x)
AddScalar(block, cols, x) ==
    [r \in 1..Len(block) |->
        IF cols = 0 THEN block[r] + x
        ELSE [c \in 1..cols |-> block[r][c] + x]]

\* data with data[lo:hi] replaced by block
AssignRows(data, lo, hi, block) ==
    [r \in 1..Len(data) |->
        IF r > lo /\ r <= Min(hi, Len(data)) THEN block[r - lo] ELSE data[r]]

\* lstm.named_parameters(): per layer weight_ih, weight_hh, bias_ih, bias_hh
NamedParameters(input_size, hidden, layers) ==
    [p \in 1..(4 * layers) |->
        LET l == (p - 1) \div 4
            w == (p - 1) % 4
        IN  [layer |-> l,
             kind |-> IF w < 2 THEN "weight" ELSE "bias",
             which |-> IF w % 2 = 0 THEN "ih" ELSE "hh",
             cols |-> IF w >= 2 THEN 0
                      ELSE IF w = 0 /\ l = 0 THEN input_size ELSE hidden,
             data |-> NewTensor(4 * hidden,
                                IF w >= 2 THEN 0
                                ELSE IF w = 0 /\ l = 0 THEN input_size
                                ELSE hidden)]]

\* mutant of ForgetIdx: the gate order of TensorFlow (i, c, f, o)
ForgetIdxTF == 1 + 1

\* index of the gate block that receives forget_bias
ForgetIdx == 1

\* block_size = param.shape[0] // 4
BlockSize(data) == Len(data) \div 4

\* the body of "for idx in range(4)" for one parameter, idx = 0..3 in order;
\* rng is the generator state before the first block
RECURSIVE InitBlocks(_, _, _, _, _, _)
InitBlocks(param, scheme, forget_bias, isBias, rng, idx) ==
    IF idx = 4 THEN param.data
    ELSE
        LET block_size == BlockSize(param.data)
            lo == idx * block_size
            hi == (idx + 1) * block_size
            filled == InitMethod(scheme, PySlice(param.data, lo, hi),
                                 param.cols, rng + idx)
            block == IF isBias /\ idx = ForgetIdx
                     THEN AddScalar(filled, param.cols, forget_bias)
                     ELSE filled
            data1 == AssignRows(param.data, lo, hi, block)
        IN  InitBlocks([param EXCEPT !.data = data1], scheme, forget_bias,
                       isBias, rng, idx + 1)

\* lstm_layer(input_size, hidden_size, num_layers, batch_first, forget_bias,
\*            kernel_init, bias_init)
lstm_layer(a) ==
    LET params == NamedParameters(a.input_size, a.hidden_size, a.num_layers)
    IN  [p \in 1..Len(params) |->
            LET param == params[p]
                rng == a.seed + 4 * (p - 1)
            IN  [param EXCEPT !.data =
                    IF param.kind = "weight"
                    THEN InitBlocks(param, a.kernel_init, a.forget_bias,
                                    FALSE, rng, 0)
                    ELSE InitBlocks(param, a.bias_init, a.forget_bias,
                                    TRUE, rng, 0)]]

\* linear_layer(input_size, output_size, kernel_init, kernel_gain, bias_init)
linear_layer(input_size, output_size, kernel_init, kernel_gain, bias_init, rng) ==
    LET w0 == InitMethod(kernel_init, NewTensor(output_size, input_size),
                         input_size, rng)
    IN  [weight |-> [r \in 1..output_size |->
                        [c \in 1..input_size |-> w0[r][c] * kernel_gain]],
         bias |-> InitMethod(bias_init, NewTensor(output_size, 0), 0, rng + 1)]

NoArgs == [input_size |-> 0]
NoLayer == << >>

LayerArgs ==
    [input_size : 1..MaxLayerInput, hidden_size : 1..MaxLayerHidden,
     num_layers : 1..MaxLayers, forget_bias : 0..MaxForgetBias,
     kernel_init : Initialization, bias_init : Initialization,
     seed : 0..MaxSeed]

-----------------------------------------------------------------------------
(* torch.nn.LSTM: the library's recurrent layer *)

\* what the parameters of layer l (0-based) contribute to its cell
LayerDigest(params, l) ==
    LET S(p) == IF params[p].layer # l THEN 0
                ELSE IF params[p].cols = 0 THEN SumSeq(params[p].data)
                ELSE SumMat(params[p].data)
        RECURSIVE Acc(_)
        Acc(p) == IF p = 0 THEN 0 ELSE S(p) + Acc(p - 1)
    IN  Acc(Len(params)) % NumVals

\* one step of one layer for one batch element: (x, h, c) -> (h', c')
Cell(x, h, c, w) ==
    LET z == SumSeq(x) + SumSeq(h) + w
        cn == [j \in 1..Len(c) |-> (c[j] + z + j) % NumVals] \o << >>
    IN  [h |-> [j \in 1..Len(h) |-> (cn[j] * j + z) % NumVals] \o << >>,
         c |-> cn]

\* one layer over the whole sequence xs of one batch element
RECURSIVE RunLayer(_, _, _, _)
RunLayer(xs, h, c, w) ==
    IF Len(xs) = 0 THEN [out |-> << >>, h |-> h, c |-> c]
    ELSE LET s == Cell(xs[1], h, c, w)
             rest == RunLayer(Tail(xs), s.h, s.c, w)
         IN  [out |-> <<s.h>> \o rest.out, h |-> rest.h, c |-> rest.c]

\* layers l..L stacked: each layer reads the output sequence of the one below
RECURSIVE RunStack(_, _, _, _, _)
RunStack(xs, hs, cs, ws, l) ==
    IF l > Len(hs) THEN [out |-> xs, h |-> << >>, c |-> << >>]
    ELSE LET r == RunLayer(xs, hs[l], cs[l], ws[l])
             up == RunStack(r.out, hs, cs, ws, l + 1)
         IN  [out |-> up.out, h |-> <<r.h>> \o up.h, c |-> <<r.c>> \o up.c]

\* the shape check of self.lstm(input_tensor, (h0, c0)), batch_first
LstmCallOk(params, layers, hidden, input, h0, c0) ==
    /\ Len(input[1][1]) = params[1].cols
    /\ Shape(h0) = <<layers, Len(input), hidden>>
    /\ Shape(c0) = <<layers, Len(input), hidden>>

\* self.lstm(input_tensor, (h0, c0)) -> lstm_out, (h_n, c_n)
\* (s \o << >> is s: it only makes TLC evaluate the sequence once)
LstmCall(params, input, h0, c0) ==
    LET ws == [l \in 1..Len(h0) |-> LayerDigest(params, l - 1)] \o << >>
        run == [b \in 1..Len(input) |->
                   RunStack(input[b],
                            [l \in 1..Len(h0) |-> h0[l][b]] \o << >>,
                            [l \in 1..Len(c0) |-> c0[l][b]] \o << >>,
                            ws, 1)] \o << >>
    IN  [out |-> [b \in 1..Len(input) |-> run[b].out],
         h |-> [l \in 1..Len(h0) |-> [b \in 1..Len(input) |-> run[b].h[l]]],
         c |-> [l \in 1..Len(c0) |-> [b \in 1..Len(input) |-> run[b].c[l]]]]

-----------------------------------------------------------------------------
(* The memory modules *)

\* Swish.forward: data * sigmoid(data), rounded to the nearest integer
Swish(data) == [k \in 1..Len(data) |-> IF data[k] > 0 THEN data[k] ELSE 0]

\* torch.nn.Linear.forward on one row
Linear(layer, x) ==
    [r \in 1..Len(layer.weight) |->
        SumSeq([c \in 1..Len(x) |-> layer.weight[r][c] * x[c]]) + layer.bias[r]]

\* self.seq_layers(rows): (linear, Swish) pairs applied to every row
RECURSIVE SeqLayers(_, _, _)
SeqLayers(layers, x, k) ==
    IF k > Len(layers) THEN x
    ELSE SeqLayers(layers, Swish(Linear(layers[k], x)), k + 1)

\* t.reshape([-1, size]) of a 3-D tensor whose last dimension is size
Reshape2D(t) ==
    LET T == Len(t[1])
    IN  [n \in 1..(Len(t) * T) |-> t[((n - 1) \div T) + 1][((n - 1) % T) + 1]]

\* rows.reshape([-1, T, size])
Reshape3D(rows, T) ==
    [b \in 1..(Len(rows) \div T) |-> [t \in 1..T |-> rows[(b - 1) * T + t]]]

\* LSTM.memory_size
LSTMMemorySize(hidden) == 2 * hidden

\* AMRLMax.memory_size
AMRLMemorySize(hidden) == (hidden \div 2) + 2 * hidden

\* mutant of AMRLSplitSizes: the layout the comment of line 232 describes
AMRLSplitSizesHalves(hidden) == <<hidden \div 2, hidden \div 2, hidden \div 2>>

\* the split sizes AMRLMax.forward hands to torch.split
AMRLSplitSizes(hidden) == <<hidden \div 2, hidden, hidden>>

MemorySize ==
    IF variant = "LSTM" THEN LSTMMemorySize(hidden_size)
    ELSE AMRLMemorySize(hidden_size)

Raise(line) ==
    [status |-> "error", raised |-> line, output |-> << >>,
     output_mem |-> << >>, lstm_out |-> << >>, h_n |-> << >>, c_n |-> << >>,
     h_half |-> << >>, other_half |-> << >>, concat_c |-> << >>,
     full_out |-> << >>]

NoRet == [Raise(0) EXCEPT !.status = "none"]

\* mutant of LSTMSplit: the two halves read in the other order
LSTMSplitSwapped(mem, hidden) ==
    [h0 |-> SliceLast(mem, hidden, Len(mem[1][1])),
     c0 |-> SliceLast(mem, 0, hidden)]

\* h0, c0 of LSTM.forward
LSTMSplit(mem, hidden) ==
    [h0 |-> SliceLast(mem, 0, hidden),
     c0 |-> SliceLast(mem, hidden, Len(mem[1][1]))]

\* mutant of LSTMOutputMem: the cell state is left out
LSTMOutputMemHiddenOnly(h_n, c_n) == h_n

\* output_mem of LSTM.forward
LSTMOutputMem(h_n, c_n) == CatLast(h_n, c_n)

\* LSTM.forward(input_tensor, memories)
LSTMForward(params, layers, hidden, input, mem) ==
    LET s == LSTMSplit(mem, hidden)
    IN  IF ~LstmCallOk(params, layers, hidden, input, s.h0, s.c0)
        THEN Raise(181)
        ELSE LET r == LstmCall(params, input, s.h0, s.c0)
             IN  [Raise(0) EXCEPT !.status = "ok",
                                  !.output = r.out,
                                  !.lstm_out = r.out,
                                  !.h_n = r.h,
                                  !.c_n = r.c,
                                  !.output_mem = LSTMOutputMem(r.h, r.c)]

\* mutant of AMRLConcatC: the incoming m is not prepended
AMRLConcatCNoAcc(m, h_half) == CumMax(h_half)

\* concat_c of AMRLMax.forward
AMRLConcatC(m, h_half) == DropFirstStep(CumMax(CatDim1(m, h_half)))

\* mutant of AMRLOutputMem: the acc slot holds the final hidden state's
\* first channels
AMRLOutputMemHidden(m, h0_out, c0_out) ==
    CatLast(CatLast(SliceLast(h0_out, 0, Len(m[1][1])), h0_out), c0_out)

\* output_mem of AMRLMax.forward
AMRLOutputMem(m, h0_out, c0_out) ==
    CatLast(CatLast(Permute102(m), h0_out), c0_out)

\* mutant of AMRLReturned: the post-processed sequence is returned
AMRLReturnedFull(concat_out, full_out) == full_out

\* what AMRLMax.forward returns as its first value
AMRLReturned(concat_out, full_out) == concat_out

\* AMRLMax.forward(input_tensor, memories)
AMRLForward(params, post, layers, hidden, input, mem) ==
    IF ~TorchSplitListOk(mem, AMRLSplitSizes(hidden)) THEN Raise(233)
    ELSE
    LET parts == TorchSplitList(mem, AMRLSplitSizes(hidden))
        acc == parts[1]
        h0 == parts[2]
        c0 == parts[3]
        m == Permute102(acc)
    IN  IF ~LstmCallOk(params, layers, hidden, input, h0, c0) THEN Raise(240)
        ELSE
        LET r == LstmCall(params, input, h0, c0)
            halves == TorchSplitInt(r.out, hidden \div 2)
        IN  IF Len(halves) # 2 THEN Raise(241)
            ELSE
            LET h_half == halves[1]
                other_half == halves[2]
            IN  IF ~CatDim1Ok(m, h_half) THEN Raise(243)
                ELSE
                LET concat_c == AMRLConcatC(m, h_half)
                IN  IF ~(CatLastOk(concat_c, other_half)) THEN Raise(247)
                    ELSE
                    LET concat_out == CatLast(concat_c, other_half)
                        rows == Reshape2D(concat_out)
                        full == [n \in 1..Len(rows) |->
                                    SeqLayers(post, rows[n], 1)]
                        full_out == Reshape3D(full, Len(input[1]))
                    IN  [Raise(0) EXCEPT
                            !.status = "ok",
                            !.output = AMRLReturned(concat_out, full_out),
                            !.lstm_out = r.out,
                            !.h_n = r.h,
                            !.c_n = r.c,
                            !.h_half = h_half,
                            !.other_half = other_half,
                            !.concat_c = concat_c,
                            !.full_out = full_out,
                            !.output_mem =
                                AMRLOutputMem(m, r.h, r.c)]

\* self.layers of AMRLMax.__init__: num_post_layers linear layers (each is
\* followed by a Swish); rng is the generator state after lstm_layer
PostLayers(hidden, num_post_layers, rng) ==
    [k \in 1..num_post_layers |->
        linear_layer(hidden, hidden, "KaimingHeNormal", 1, "Zero",
                     rng + 2 * (k - 1))]

-----------------------------------------------------------------------------
(* Inputs of the model *)

\* arguments the modules are constructed with besides memory_size and
\* num_layers: input_size 1 and the defaults of lines 152-154 / 198-200
ModuleArgs ==
    [input_size : {1}, forget_bias : {1},
     kernel_init : {"XavierGlorotUniform"}, bias_init : {"Zero"}, seed : {0}]

\* the memory the provider hands out at the start of a sequence
InitialMemory(layers, batch, size, p) ==
    [l \in 1..layers |-> [b \in 1..batch |->
        [j \in 1..size |-> (p + l + b + j) % NumVals]]]

\* an input tensor of shape (batch, T, input_size) with entries 0 and 1:
\* step t of batch element b is s[t], flipped for every other batch element
\* and every other input channel
InputTensor(batch, T, input_size, s) ==
    [b \in 1..batch |-> [t \in 1..T |->
        [i \in 1..input_size |-> (s[t] + (b - 1) + (i - 1)) % 2]]]

-----------------------------------------------------------------------------
(* Specification of the memory modules *)

Init ==
    /\ margs = NoArgs
    /\ largs = NoArgs
    /\ lstm = NoLayer
    /\ variant = "none"
    /\ hidden_size = 0
    /\ num_layers = 0
    /\ seq_layers = << >>
    /\ memories = << >>
    /\ input_tensor = << >>
    /\ in_memories = << >>
    /\ ret = NoRet
    /\ calls = 0
    /\ steps = 0

\* the lstm_layer call of both constructors
LstmLayerArgs(memory_size, layers, a) ==
    [input_size |-> a.input_size,
     hidden_size |-> memory_size \div 2,
     num_layers |-> layers,
     forget_bias |-> a.forget_bias,
     kernel_init |-> a.kernel_init,
     bias_init |-> a.bias_init,
     seed |-> a.seed]

\* LSTM.__init__(input_size, memory_size, num_layers, forget_bias,
\*               kernel_init, bias_init)
LSTMInit(memory_size, layers, a) ==
    /\ variant = "none"
    /\ hidden_size' = memory_size \div 2
    /\ num_layers' = layers
    /\ largs' = LstmLayerArgs(memory_size, layers, a)
    /\ lstm' = lstm_layer(largs')
    /\ variant' = "LSTM"
    /\ seq_layers' = << >>
    /\ UNCHANGED <<margs, memories, input_tensor, in_memories, ret, calls, steps>>

\* AMRLMax.__init__(input_size, memory_size, num_layers, batch_first,
\*                  forget_bias, kernel_init, bias_init, num_post_layers)
AMRLMaxInit(memory_size, layers, a, num_post_layers) ==
    /\ variant = "none"
    /\ hidden_size' = memory_size \div 2
    /\ num_layers' = layers
    /\ largs' = LstmLayerArgs(memory_size, layers, a)
    /\ lstm' = lstm_layer(largs')
    /\ seq_layers' = PostLayers(memory_size \div 2, num_post_layers,
                                a.seed + 16 * layers)
    /\ variant' = "AMRLMax"
    /\ UNCHANGED <<margs, memories, input_tensor, in_memories, ret, calls, steps>>

ConstructLSTM ==
    /\ margs = NoArgs
    /\ \E memory_size \in 2..MaxMemArg, layers \in 1..MaxLayers, a \in ModuleArgs :
        LSTMInit(memory_size, layers, a)

ConstructAMRLMax ==
    /\ margs = NoArgs
    /\ \E memory_size \in 2..MaxMemArg, layers \in 1..MaxLayers, a \in ModuleArgs,
          num_post_layers \in 1..MaxPostLayers :
        AMRLMaxInit(memory_size, layers, a, num_post_layers)

\* the initial-memory provider: shape (num_layers, batch, memory_size)
ProvideMemory ==
    /\ variant # "none"
    /\ memories = << >>
    /\ \E batch \in 1..MaxBatch, p \in 0..(NumVals - 1) :
        memories' = InitialMemory(num_layers, batch, MemorySize, p)
    /\ calls' = 0
    /\ steps' = 0
    /\ UNCHANGED <<margs, largs, lstm, variant, hidden_size, num_layers,
                   seq_layers, input_tensor, in_memories, ret>>

\* the caller's side of one forward call: the carried memory goes in, the
\* returned memory is carried on; an exception ends the run
Call(r, input) ==
    /\ ret' = r
    /\ input_tensor' = input
    /\ in_memories' = memories
    /\ memories' = IF r.status = "ok" THEN r.output_mem ELSE memories
    /\ calls' = calls + 1
    /\ steps' = steps + Len(input[1])
    /\ UNCHANGED <<margs, largs, lstm, variant, hidden_size, num_layers,
                   seq_layers>>

Inputs ==
    UNION {{InputTensor(Len(memories[1]), T, largs.input_size, s) :
                s \in [1..T -> 0..1]} : T \in 1..(MaxSteps - steps)}

ForwardLSTM ==
    /\ variant = "LSTM"
    /\ memories # << >>
    /\ ret.status # "error"
    /\ steps < MaxSteps
    /\ \E input \in Inputs :
        Call(LSTMForward(lstm, num_layers, hidden_size, input, memories), input)

ForwardAMRLMax ==
    /\ variant = "AMRLMax"
    /\ memories # << >>
    /\ ret.status # "error"
    /\ steps < MaxSteps
    /\ \E input \in Inputs :
        Call(AMRLForward(lstm, seq_layers, num_layers, hidden_size, input,
                         memories), input)

Next ==
    \/ ConstructLSTM
    \/ ConstructAMRLMax
    \/ ProvideMemory
    \/ ForwardLSTM
    \/ ForwardAMRLMax

Spec == Init /\ [][Next]_vars

-----------------------------------------------------------------------------
(* Specification of the layer factory: lstm_layer applied to its arguments *)

InitLayer ==
    /\ margs = NoArgs
    /\ largs \in LayerArgs
    /\ lstm = NoLayer
    /\ variant = "none"
    /\ hidden_size = 0
    /\ num_layers = 0
    /\ seq_layers = << >>
    /\ memories = << >>
    /\ input_tensor = << >>
    /\ in_memories = << >>
    /\ ret = NoRet
    /\ calls = 0
    /\ steps = 0

CallLstmLayer ==
    /\ lstm = NoLayer
    /\ lstm' = lstm_layer(largs)
    /\ UNCHANGED <<margs, largs, variant, hidden_size, num_layers, seq_layers,
                   memories, input_tensor, in_memories, ret, calls, steps>>

NextLayer == CallLstmLayer

SpecLayer == InitLayer /\ [][NextLayer]_vars

-----------------------------------------------------------------------------
(* Specification of the constructors: each applied to its arguments, and  *)
(* the memory the provider then hands out                                  *)

CtorArgs ==
    [variant : {"LSTM", "AMRLMax"}, memory_size : 2..MaxMemArg,
     num_layers : 1..MaxLayers, num_post_layers : 1..MaxPostLayers,
     module : ModuleArgs]

InitCtor ==
    /\ margs \in CtorArgs
    /\ largs = NoArgs
    /\ lstm = NoLayer
    /\ variant = "none"
    /\ hidden_size = 0
    /\ num_layers = 0
    /\ seq_layers = << >>
    /\ memories = << >>
    /\ input_tensor = << >>
    /\ in_memories = << >>
    /\ ret = NoRet
    /\ calls = 0
    /\ steps = 0

CallLSTMInit ==
    /\ margs # NoArgs
    /\ margs.variant = "LSTM"
    /\ LSTMInit(margs.memory_size, margs.num_layers, margs.module)

CallAMRLMaxInit ==
    /\ margs # NoArgs
    /\ margs.variant = "AMRLMax"
    /\ AMRLMaxInit(margs.memory_size, margs.num_layers, margs.module,
                   margs.num_post_layers)

NextCtor ==
    \/ CallLSTMInit
    \/ CallAMRLMaxInit
    \/ ProvideMemory

SpecCtor == InitCtor /\ [][NextCtor]_vars

-----------------------------------------------------------------------------
(* Properties of the memory modules (Spec) *)

AMRLReturnedOk == variant = "AMRLMax" /\ ret.status = "ok"
LSTMReturnedOk == variant = "LSTM" /\ ret.status = "ok"

Half == hidden_size \div 2
Batches == 1..Len(input_tensor)
Times == 1..Len(input_tensor[1])

\* the acc, h0 and c0 slots of an AMRLMax memory tensor
AccSlot(mem) == SliceLast(mem, 0, Half)
H0Slot(mem) == SliceLast(mem, Half, Half + hidden_size)
C0Slot(mem) == SliceLast(mem, Half + hidden_size, Half + 2 * hidden_size)

\* the first hidden_size // 2 channels of lstm_out
HHalf == SliceLast(ret.lstm_out, 0, Half)

\* the largest of the incoming acc and the steps 1..t of h_half, for batch
\* element b and channel k
RunningMax(b, t, k) ==
    LET vals == {in_memories[1][b][k]} \cup {HHalf[b][s][k] : s \in 1..t}
    IN  CHOOSE v \in vals : \A u \in vals : u <= v

\* C1: the acc slot of the updated_memory AMRLMax.forward returns is the
\* running maximum at the last time step (the element-wise maximum of the
\* incoming acc and all time steps of h_half), and the slots after it are
\* h0_out and c0_out.
C1_AccSlotIsRunningMax ==
    AMRLReturnedOk =>
        /\ AccSlot(ret.output_mem) =
              [l \in 1..1 |-> [b \in Batches |->
                  [k \in 1..Half |-> RunningMax(b, Len(input_tensor[1]), k)]]]
        /\ H0Slot(ret.output_mem) = ret.h_n
        /\ C0Slot(ret.output_mem) = ret.c_n

\* the next forward call accepts mem: a one-step call on it returns
ProbeInput == InputTensor(Len(memories[1]), 1, largs.input_size, <<0>>)
NextCallAccepts(mem) ==
    IF variant = "LSTM"
    THEN LSTMForward(lstm, num_layers, hidden_size, ProbeInput, mem).status = "ok"
    ELSE AMRLForward(lstm, seq_layers, num_layers, hidden_size, ProbeInput,
                     mem).status = "ok"

\* C2: for both variants, along any chain of forward calls that hand the
\* returned memory to the next call, the updated_memory has the shape of the
\* initial_memory of that call, its last dimension is memory_size, and the
\* next call accepts it.
C2_UpdatedMemoryShape ==
    ret.status = "ok" =>
        /\ Shape(ret.output_mem) = Shape(in_memories)
        /\ Len(ret.output_mem[1][1]) = MemorySize
        /\ memories = ret.output_mem
        /\ NextCallAccepts(ret.output_mem)

C2_Witness ==
    /\ AMRLReturnedOk
    /\ calls >= 2
    /\ Len(input_tensor) >= 2
    /\ in_memories # ret.output_mem

\* C4: the aggregated channels (first half of the returned output) never
\* decrease along the time axis, in any channel of any batch element, and at
\* every step are at least the incoming acc and at least h_half at that step.
C4_CumMaxMonotone ==
    AMRLReturnedOk =>
        \A b \in Batches, t \in Times, k \in 1..Half :
            /\ ret.output[b][t][k] >= in_memories[1][b][k]
            /\ ret.output[b][t][k] >= HHalf[b][t][k]
            /\ t > 1 => ret.output[b][t][k] >= ret.output[b][t - 1][k]

C4_Witness ==
    /\ AMRLReturnedOk
    /\ \E b \in Batches, t \in Times, k \in 1..Half :
        /\ t > 1
        /\ ret.output[b][t][k] > ret.output[b][t - 1][k]
        /\ ret.output[b][t - 1][k] > HHalf[b][t - 1][k]
    /\ \E b \in Batches, t \in Times, k \in 1..Half :
        /\ t > 1
        /\ HHalf[b][t][k] < HHalf[b][t - 1][k]

\* C6: the LSTM module's memory_size is 2 * hidden_size; its updated_memory
\* is the final hidden state in [0:hidden_size) followed by the final cell
\* state in [hidden_size:2*hidden_size); and splitting that updated_memory as
\* the next call's initial_memory gives back the same (h0_out, c0_out).
C6_LSTMLayoutRoundTrip ==
    LSTMReturnedOk =>
        /\ MemorySize = 2 * hidden_size
        /\ SliceLast(ret.output_mem, 0, hidden_size) = ret.h_n
        /\ SliceLast(ret.output_mem, hidden_size, 2 * hidden_size) = ret.c_n
        /\ LSTMSplit(ret.output_mem, hidden_size) =
              [h0 |-> ret.h_n, c0 |-> ret.c_n]

C6_Witness ==
    /\ LSTMReturnedOk
    /\ calls >= 2
    /\ num_layers >= 2
    /\ hidden_size >= 2
    /\ ret.h_n # ret.c_n

\* C9: for every hidden_size >= 1, the split of lstm_out gives exactly two
\* parts, h_half with the first hidden_size // 2 channels and other_half with
\* the rest, and the forward call completes without error (num_layers = 1,
\* well-formed input and memory).
C9_SplitGivesTwoHalves ==
    (variant = "AMRLMax" /\ num_layers = 1 /\ calls > 0) =>
        /\ ret.status = "ok"
        /\ Len(ret.h_half[1][1]) = Half
        /\ Len(ret.other_half[1][1]) = hidden_size - Half

\* the time steps of input permuted by f
Perms(T) == {f \in [1..T -> 1..T] : \A i, j \in 1..T : f[i] = f[j] => i = j}
PermuteTime(input, f) ==
    [b \in 1..Len(input) |-> [t \in 1..Len(input[b]) |-> input[b][f[t]]]]

\* per batch element, the set of the per-step values of h
StepSet(h) == [b \in 1..Len(h) |-> {h[b][t] : t \in 1..Len(h[b])}]

\* the last forward call repeated on other arguments
AMRLAgain(input, mem) ==
    AMRLForward(lstm, seq_layers, num_layers, hidden_size, input, mem)

\* C5: running AMRLMax on a permutation of the time steps that has the same
\* set of per-step maxima (reached in another order) gives the same final
\* acc, for any input sequence and any incoming acc.
C5_OrderInvariantAcc ==
    AMRLReturnedOk =>
        \A f \in Perms(Len(input_tensor[1])) :
            LET r2 == AMRLAgain(PermuteTime(input_tensor, f), in_memories)
            IN  (r2.status = "ok"
                 /\ StepSet(r2.concat_c) = StepSet(ret.concat_c))
                    => AccSlot(r2.output_mem) = AccSlot(ret.output_mem)

C5_Witness ==
    /\ AMRLReturnedOk
    /\ \E f \in Perms(Len(input_tensor[1])) :
        LET r2 == AMRLAgain(PermuteTime(input_tensor, f), in_memories)
        IN  /\ PermuteTime(input_tensor, f) # input_tensor
            /\ r2.status = "ok"
            /\ StepSet(r2.concat_c) = StepSet(ret.concat_c)
            /\ r2.concat_c # ret.concat_c
            /\ r2.h_half # ret.h_half
            /\ r2.h_n # ret.h_n

\* post-processing layers other than the module's own
AltPostLayers ==
    {PostLayers(hidden_size, n, rng) : n \in 0..MaxPostLayers, rng \in 0..1}

\* C8: AMRLMax.forward returns the aggregated sequence before
\* post-processing, concat_c joined with other_half, as long as the input in
\* time and hidden_size wide; the post-processed full_out changes neither
\* the returned output nor the returned updated_memory.
C8_ReturnsPrePostProcessing ==
    AMRLReturnedOk =>
        /\ ret.output = CatLast(ret.concat_c, ret.other_half)
        /\ Len(ret.output) = Len(input_tensor)
        /\ \A b \in Batches :
            /\ Len(ret.output[b]) = Len(input_tensor[b])
            /\ \A t \in Times : Len(ret.output[b][t]) = hidden_size
        /\ \A post \in AltPostLayers :
            LET r2 == AMRLForward(lstm, post, num_layers, hidden_size,
                                  input_tensor, in_memories)
            IN  /\ r2.output = ret.output
                /\ r2.output_mem = ret.output_mem

C8_Witness ==
    /\ AMRLReturnedOk
    /\ Len(input_tensor[1]) >= 2
    /\ Shape(ret.full_out) = Shape(ret.output)
    /\ ret.full_out # ret.output
    /\ \E post \in AltPostLayers :
        AMRLForward(lstm, post, num_layers, hidden_size, input_tensor,
                    in_memories).full_out # ret.full_out

\* input[:, lo:hi, :] (0-based)
TimeSlice(t, lo, hi) == [b \in 1..Len(t) |-> PySlice(t[b], lo, hi)]

\* C10: processing a sequence in two consecutive forward calls (the prefix,
\* then the suffix on the first call's updated_memory) gives the same
\* aggregated outputs for the suffix steps and the same final updated_memory
\* as one forward call on the whole sequence from the same initial memory.
C10_ChunkedEqualsWhole ==
    AMRLReturnedOk =>
        \A k \in 1..(Len(input_tensor[1]) - 1) :
            LET T == Len(input_tensor[1])
                r1 == AMRLAgain(TimeSlice(input_tensor, 0, k), in_memories)
                r2 == AMRLAgain(TimeSlice(input_tensor, k, T), r1.output_mem)
            IN  /\ r1.status = "ok"
                /\ r2.status = "ok"
                /\ r2.output = TimeSlice(ret.output, k, T)
                /\ r2.output_mem = ret.output_mem

-----------------------------------------------------------------------------
(* Properties of the constructors (SpecCtor) *)

-----------------------------------------------------------------------------
(* Properties of the layer factory (SpecLayer) *)

\* C7: after lstm_layer returns, every bias tensor, split into 4 contiguous
\* blocks of dim0 // 4 rows, has the bias_init result plus forget_bias in
\* block 1 and the bias_init result alone in blocks 0, 2 and 3; every weight
\* tensor has the kernel_init result, with no offset, in each of its blocks.
C7_ForgetGateBias ==
    lstm # NoLayer =>
        \A p \in 1..Len(lstm) :
            LET param == lstm[p]
                block_size == Len(param.data) \div 4
            IN  /\ Len(param.data) = 4 * largs.hidden_size
                /\ \A i \in 1..Len(param.data) :
                    LET idx == (i - 1) \div block_size
                        r == ((i - 1) % block_size) + 1
                        rng == largs.seed + 4 * (p - 1) + idx
                    IN  IF param.kind = "bias"
                        THEN param.data[i] =
                                InitValue(largs.bias_init, rng, r, 0)
                                + (IF idx = 1 THEN largs.forget_bias ELSE 0)
                        ELSE param.data[i] =
                                [c \in 1..param.cols |->
                                    InitValue(largs.kernel_init, rng, r, c)]

C7_Witness ==
    /\ lstm # NoLayer
    /\ largs.forget_bias > 0
    /\ largs.bias_init # "Zero"
    /\ largs.kernel_init # "Zero"
    /\ largs.hidden_size >= 2
    /\ largs.num_layers >= 2

====
